---- MODULE Spec2Model ----
(***************************************************************************)
(* lab-editor: the step-transcript file format (file_io.rs), the document  *)
(* model (model.rs), the startup padding (main.rs) and the editor          *)
(* controller (editor.rs).                                                 *)
(*                                                                         *)
(* A string is the sequence of its bytes, each byte a one-character TLA+   *)
(* string; a line is a string without "\n"; a Step is a sequence of lines; *)
(* a Document is a sequence of Steps.                                      *)
(***************************************************************************)
EXTENDS Integers, Sequences, FiniteSets, TLC

VARIABLES pc, disk, th, nkeys, orig, steps, memo, si, row, col, scroll, dirty,
          msg, running, quit_confirm, saved_doc

vars == <<pc, disk, th, nkeys, orig, steps, memo, si, row, col, scroll, dirty,
          msg, running, quit_confirm, saved_doc>>

editor_vars ==
    <<memo, si, row, col, scroll, dirty, msg, running, quit_confirm, saved_doc>>

(***************************************************************************)
(* Bounds of the model.                                                    *)
(***************************************************************************)
\* tokens (steps plus lines) of an input Document of the file_io harness
MaxDocSize == 5
\* raw lines of an input file of the file_io harness
MaxFileLines == 4
\* key events of a run of the editor
MaxKeys == 4
\* lines of the Step of the viewport harness
MaxViewLines == 5
\* rows of the terminal of the viewport harness
MaxTermHeight == 5
\* the longest file, in lines, and the largest step count of the startup
\* harness
MaxPadLines == 3
MaxSteps == 3

(***************************************************************************)
(* Strings.                                                                *)
(***************************************************************************)
NL == "\n"
CR == "\r"
TAB == "\t"

\* char::is_whitespace, on the bytes the model uses
is_whitespace(c) == c \in {" ", TAB, NL, CR}

Digits == <<"0", "1", "2", "3", "4", "5", "6", "7", "8", "9">>

\* integer to decimal string (next_expected.to_string(), (i + 1).to_string())
RECURSIVE to_string(_)
to_string(n) ==
    IF n < 10 THEN <<Digits[n + 1]>>
    ELSE to_string(n \div 10) \o <<Digits[(n % 10) + 1]>>

RECURSIVE trim_start(_)
trim_start(s) ==
    IF s # <<>> /\ is_whitespace(Head(s)) THEN trim_start(Tail(s)) ELSE s

RECURSIVE trim_end(_)
trim_end(s) ==
    IF s # <<>> /\ is_whitespace(s[Len(s)])
    THEN trim_end(SubSeq(s, 1, Len(s) - 1))
    ELSE s

\* str::trim
trim(s) == trim_end(trim_start(s))

\* str::starts_with
starts_with(s, p) == Len(s) >= Len(p) /\ SubSeq(s, 1, Len(p)) = p

\* str::trim_end_matches('\n')
RECURSIVE trim_end_matches_nl(_)
trim_end_matches_nl(s) ==
    IF s # <<>> /\ s[Len(s)] = NL
    THEN trim_end_matches_nl(SubSeq(s, 1, Len(s) - 1))
    ELSE s

\* str::lines: split at "\n"; a line that ended in "\n" loses one trailing
\* "\r"; no line follows a final "\n"
RECURSIVE lines(_)
lines(text) ==
    IF text = <<>> THEN <<>>
    ELSE IF \E i \in 1..Len(text) : text[i] = NL
    THEN LET i == CHOOSE k \in 1..Len(text) :
                      text[k] = NL /\ \A j \in 1..(k - 1) : text[j] # NL
             raw == SubSeq(text, 1, i - 1)
             line == IF raw # <<>> /\ raw[Len(raw)] = CR
                     THEN SubSeq(raw, 1, Len(raw) - 1)
                     ELSE raw
         IN  <<line>> \o lines(SubSeq(text, i + 1, Len(text)))
    ELSE <<text>>

(***************************************************************************)
(* model.rs                                                                *)
(***************************************************************************)
new_step == << <<>> >>

make_steps(n) == [i \in 1..n |-> new_step]

(***************************************************************************)
(* file_io.rs: the parser.                                                 *)
(***************************************************************************)
\* variant: any step number up to the expected one is a delimiter
is_step_number_consumed(trimmed, next_expected) ==
    \E k \in 1..next_expected : trimmed = to_string(k)

\* trimmed == next_expected.to_string()
is_step_number(trimmed, next_expected) == trimmed = to_string(next_expected)

\* if !current_step.is_empty() { steps.push(current_step.clone()) }
flush(acc, current_step) ==
    IF current_step # <<>> THEN Append(acc, current_step) ELSE acc

\* variant: the parsed Steps as they are, even if there are none
or_new_step_none(acc) == acc

\* if steps.is_empty() { vec![new_step()] } else { steps }
or_new_step(acc) == IF acc = <<>> THEN <<new_step>> ELSE acc

\* the content line a non-delimiter line of the plain branch adds
new_content(line) == <<line>>

\* variant: a bare "$" is kept
old_content_keep_dollar(line) ==
    IF starts_with(line, <<"$", " ">>) THEN <<SubSeq(line, 3, Len(line))>>
    ELSE <<line>>

\* the content lines a non-delimiter line of the legacy-command branch adds
old_content(line) ==
    IF line = <<"$">> THEN <<>>
    ELSE IF starts_with(line, <<"$", " ">>) THEN <<SubSeq(line, 3, Len(line))>>
    ELSE <<line>>

RECURSIVE scan_new(_, _, _, _)
scan_new(ls, acc, current_step, next_expected) ==
    IF ls = <<>> THEN flush(acc, current_step)
    ELSE LET line == Head(ls)
             trimmed == trim(line)
         IN  IF trimmed = <<>>
             THEN scan_new(Tail(ls), acc, current_step, next_expected)
             ELSE IF is_step_number(trimmed, next_expected)
             THEN scan_new(Tail(ls), flush(acc, current_step), <<>>,
                           next_expected + 1)
             ELSE scan_new(Tail(ls), acc, current_step \o new_content(line),
                           next_expected)

load_new_format(content) == or_new_step(scan_new(lines(content), <<>>, <<>>, 1))

RECURSIVE scan_old(_, _, _, _)
scan_old(ls, acc, current_step, next_expected) ==
    IF ls = <<>> THEN flush(acc, current_step)
    ELSE LET line == Head(ls)
             trimmed == trim(line)
         IN  IF trimmed = <<>>
             THEN scan_old(Tail(ls), acc, current_step, next_expected)
             ELSE IF is_step_number(trimmed, next_expected)
             THEN scan_old(Tail(ls), flush(acc, current_step), <<>>,
                           next_expected + 1)
             ELSE scan_old(Tail(ls), acc, current_step \o old_content(line),
                           next_expected)

load_old_format(content) == or_new_step(scan_old(lines(content), <<>>, <<>>, 1))

\* content.lines().any(|l| l.starts_with("$ "))
is_old_format(content) ==
    LET ls == lines(content)
    IN  \E i \in 1..Len(ls) : starts_with(ls[i], <<"$", " ">>)

\* a file is missing, unreadable, or holds a text
MissingFile == [state |-> "missing", content |-> <<>>]
UnreadableFile == [state |-> "unreadable", content |-> <<>>]
TextFile(text) == [state |-> "ok", content |-> text]

load_file(file) ==
    IF file.state # "ok" THEN <<new_step>>
    ELSE IF trim(file.content) = <<>> THEN <<new_step>>
    ELSE IF is_old_format(file.content) THEN load_old_format(file.content)
    ELSE load_new_format(file.content)

(***************************************************************************)
(* file_io.rs: the serializer.                                             *)
(***************************************************************************)
RECURSIVE push_lines(_)
push_lines(step) ==
    IF step = <<>> THEN <<>>
    ELSE Head(step) \o <<NL>> \o push_lines(Tail(step))

\* the text of steps i.. of the document, numbered from i
RECURSIVE push_steps(_, _)
push_steps(doc, i) ==
    IF doc = <<>> THEN <<>>
    ELSE to_string(i) \o <<NL>> \o push_lines(Head(doc))
         \o push_steps(Tail(doc), i + 1)

\* variant: the assembled text as it is
final_output_untrimmed(output) == IF output = <<>> THEN <<NL>> ELSE output

\* trim_end_matches('\n'), then one "\n"
final_output(output) ==
    LET trimmed == trim_end_matches_nl(output)
    IN  IF trimmed = <<>> THEN <<NL>> ELSE trimmed \o <<NL>>

\* the text save_file writes
save_file(doc) == final_output(push_steps(doc, 1))

(***************************************************************************)
(* The file_io harness: an input Document is saved and loaded again, an    *)
(* input file is loaded (as the tests of file_io.rs do).                   *)
(***************************************************************************)
\* the content lines of the input Documents
DocLineSet == { <<>>, <<"a">>, <<"2">>, <<"$", " ", "a">> }

\* the raw lines of the input files
RawLineSet == { <<>>, <<" ">>, <<"1">>, <<"2">>, <<" ", "2">>,
                <<"a">>, <<"$">>, <<"$", " ", "a">>, <<" ", "$", " ", "a">> }

\* the Document of the spec's serializer scenario
ExampleDoc == << << <<"a">> >>, << <<"b">>, <<"c">> >> >>

\* d with one more line at the end of its last Step
push_line(d, l) == [d EXCEPT ![Len(d)] = Append(@, l)]

\* the Documents built by at most n pushes (of a Step, or of a line to the
\* last Step)
RECURSIVE DocsUpTo(_)
DocsUpTo(n) ==
    IF n = 0 THEN { <<>> }
    ELSE LET P == DocsUpTo(n - 1)
         IN  P \cup { Append(d, <<>>) : d \in P }
               \cup { push_line(d, l) : d \in P \ { <<>> }, l \in DocLineSet }

Docs == DocsUpTo(MaxDocSize) \cup { ExampleDoc }

\* the lines, each ended by "\n"
RECURSIVE join_lines(_)
join_lines(ls) ==
    IF ls = <<>> THEN <<>> ELSE Head(ls) \o <<NL>> \o join_lines(Tail(ls))

\* the text of the lines ls, with or without the final "\n"
text_of(ls, final_nl) ==
    LET t == join_lines(ls)
    IN  IF final_nl \/ t = <<>> THEN t ELSE SubSeq(t, 1, Len(t) - 1)

NoMsg == [text |-> "", kind |-> "None"]

NoEditor ==
    /\ memo = <<>>
    /\ si = 0
    /\ row = 0
    /\ col = 0
    /\ scroll = 0
    /\ dirty = FALSE
    /\ msg = NoMsg
    /\ running = FALSE
    /\ quit_confirm = FALSE
    /\ saved_doc = <<>>

InitIO ==
    /\ NoEditor
    /\ th = 0
    /\ nkeys = 0
    /\ \/ /\ pc = "doc"
          /\ orig \in Docs
          /\ steps = orig
          /\ disk = MissingFile
       \/ /\ pc = "text"
          /\ \/ disk \in { MissingFile, UnreadableFile }
             \/ \E n \in 0..MaxFileLines :
                  \E ls \in [1..n -> RawLineSet] :
                    \E final_nl \in BOOLEAN :
                      disk = TextFile(text_of(ls, final_nl))
          /\ orig = <<>>
          /\ steps = <<>>

\* save_file(path, &steps) succeeds
TestSave ==
    /\ pc = "doc"
    /\ disk' = TextFile(save_file(steps))
    /\ pc' = "saved"
    /\ UNCHANGED <<th, nkeys, orig, steps, editor_vars>>

\* load_file(path)
TestLoad ==
    /\ pc \in {"text", "saved"}
    /\ steps' = load_file(disk)
    /\ pc' = IF pc = "text" THEN "loaded" ELSE "reloaded"
    /\ UNCHANGED <<th, nkeys, orig, disk, editor_vars>>

NextIO == TestSave \/ TestLoad

SpecIO == InitIO /\ [][NextIO]_vars

(***************************************************************************)
(* The format, stated on the raw lines of a file (the reading the claims   *)
(* are checked against).                                                   *)
(***************************************************************************)
IsBlank(l) == \A i \in 1..Len(l) : is_whitespace(l[i])

IsNumeral(s) == s # <<>> /\ \A i \in 1..Len(s) : \E d \in 1..10 : s[i] = Digits[d]

\* the number of step delimiters among ls[1..n]: a line is a delimiter when
\* its trimmed text is the numeral after the delimiters counted so far
RECURSIVE DelimsUpTo(_, _)
DelimsUpTo(ls, n) ==
    IF n = 0 THEN 0
    ELSE LET k == DelimsUpTo(ls, n - 1)
         IN  IF trim(ls[n]) = to_string(k + 1) THEN k + 1 ELSE k

IsDelimiter(ls, i) == DelimsUpTo(ls, i) = DelimsUpTo(ls, i - 1) + 1

Legacy(ls) == \E i \in 1..Len(ls) : Len(ls[i]) >= 2 /\ ls[i][1] = "$" /\ ls[i][2] = " "

\* the layout of the lines ls: delims[n] is the number of delimiters among
\* ls[1..n]; the lines of content are those that add a content line to the
\* Document (not blank, not a delimiter, not a bare "$" of a legacy file);
\* groups are the delimiter counts under which content lines stand; step[i]
\* and pos[i] are the Step, and the place in it, where the content of line i
\* is expected
Layout(ls) ==
    LET delims == [n \in 0..Len(ls) |-> DelimsUpTo(ls, n)]
        legacy == Legacy(ls)
        content == { i \in 1..Len(ls) :
                       /\ ~IsBlank(ls[i])
                       /\ delims[i] = delims[i - 1]
                       /\ ~(legacy /\ ls[i] = <<"$">>) }
        groups == { delims[i] : i \in content }
    IN  [delims |-> delims,
         content |-> content,
         groups |-> groups,
         step |-> [i \in 1..Len(ls) |->
                      Cardinality({ g \in groups : g <= delims[i] })],
         pos |-> [i \in 1..Len(ls) |->
                     Cardinality({ j \in content :
                                     j <= i /\ delims[j] = delims[i] })]]

\* the content of line i, laid out by L, is stored as l
Stored(L, i, l) ==
    /\ L.step[i] \in 1..Len(steps)
    /\ L.pos[i] \in 1..Len(steps[L.step[i]])
    /\ steps[L.step[i]][L.pos[i]] = l

RawLines == lines(disk.content)

Loaded == pc = "loaded" /\ disk.state = "ok"

(***************************************************************************)
(* Claims on the file format, checked under SpecIO.                        *)
(***************************************************************************)
\* a Document the editor can hold: at least one Step, no Step without a line
EditorDoc(d) == d # <<>> /\ \A k \in 1..Len(d) : d[k] # <<>>

\* the lines save_file assembles: each Step's number, then its lines
RECURSIVE AssembledLines(_, _)
AssembledLines(d, k) ==
    IF k > Len(d) THEN <<>>
    ELSE <<to_string(k)>> \o d[k] \o AssembledLines(d, k + 1)

\* the places of the Step numbers in AssembledLines(d, 1)
RECURSIVE NumberPlaces(_, _)
NumberPlaces(d, k) ==
    IF k = 0 THEN {}
    ELSE NumberPlaces(d, k - 1) \cup { Len(AssembledLines(SubSeq(d, 1, k - 1), 1)) + 1 }

\* no content line is the numeral expected as the next delimiter when it is
\* scanned
NoContentLineIsNextDelimiter(d) ==
    LET al == AssembledLines(d, 1)
    IN  \A i \in (1..Len(al)) \ NumberPlaces(d, Len(d)) :
            al[i] # to_string(DelimsUpTo(al, i - 1) + 1)

\* C1: loading the text save_file wrote for a Document (of at least one Step,
\* each of at least one line) none of whose content lines is the next expected
\* delimiter when scanned returns that Document.
C1_RoundTrip ==
    (pc = "reloaded" /\ EditorDoc(orig) /\ NoContentLineIsNextDelimiter(orig))
        => steps = orig

\* the delimiters of ls after which no content line stands before the next
\* delimiter or the end
EmptySlots(ls) ==
    LET L == Layout(ls)
    IN  { i \in 1..Len(ls) :
            /\ L.delims[i] = L.delims[i - 1] + 1
            /\ L.delims[i] \notin L.groups }

\* the Step a delimiter opens: its ordinal, after the Step of the content that
\* stands before the first delimiter, if any
SlotOfDelimiter(ls, i) ==
    DelimsUpTo(ls, i) + (IF 0 \in Layout(ls).groups THEN 1 ELSE 0)

\* C2: every matched delimiter opens a Step slot: a delimiter followed by the
\* next delimiter or by the end of input, with no content line between, gives
\* an empty Step (one empty line) at its position in the parse result.
C2_EveryDelimiterOpensAStep ==
    Loaded =>
        \A i \in EmptySlots(RawLines) :
            /\ SlotOfDelimiter(RawLines, i) \in 1..Len(steps)
            /\ steps[SlotOfDelimiter(RawLines, i)] = new_step

\* C3: a non-blank line is a step delimiter exactly when its trimmed text is
\* the decimal form of next_expected when it is scanned; every other bare
\* numeral line is kept verbatim as a content line of the current Step, and
\* Steps begin only at delimiters.
C3_DelimiterDisambiguation ==
    Loaded =>
        LET ls == RawLines
            L == Layout(ls)
        IN  /\ \A i \in 1..Len(ls) :
                   (IsNumeral(trim(ls[i])) /\ L.delims[i] = L.delims[i - 1])
                       => Stored(L, i, ls[i])
            /\ L.content # {} =>
                   /\ Len(steps) = Cardinality(L.groups)
                   /\ \A i \in L.content :
                          Len(steps[L.step[i]]) =
                              Cardinality({ j \in L.content :
                                              L.delims[j] = L.delims[i] })

\* a numeral line after a delimiter was kept as content, and a later delimiter
\* split off a second Step
C3_Witness ==
    /\ Loaded
    /\ Len(steps) = 2
    /\ \E i, j \in 1..Len(RawLines) :
           /\ i < j
           /\ IsDelimiter(RawLines, i)
           /\ IsNumeral(trim(RawLines[j]))
           /\ ~IsDelimiter(RawLines, j)
           /\ Stored(Layout(RawLines), j, RawLines[j])

RECURSIVE TotalLines(_)
TotalLines(d) == IF d = <<>> THEN 0 ELSE Len(Head(d)) + TotalLines(Tail(d))

\* C4: the legacy-command branch is taken exactly when a raw line starts with
\* "$ "; there a line "$" adds nothing and a line "$ x" adds "x"; every other
\* non-blank non-delimiter line, and every such line of the plain branch, is
\* stored verbatim; Steps are split by the same delimiter rule.
C4_LegacyCommandParsing ==
    Loaded =>
        LET ls == RawLines
            L == Layout(ls)
            legacy == Legacy(ls)
        IN  /\ \A i \in L.content :
                   Stored(L, i, IF legacy /\ starts_with(ls[i], <<"$", " ">>)
                                 THEN SubSeq(ls[i], 3, Len(ls[i]))
                                 ELSE ls[i])
            /\ L.content # {} =>
                   TotalLines(steps) = Cardinality(L.content)

\* a legacy-command file with a "$" line and two Steps was loaded
C4_Witness ==
    /\ Loaded
    /\ Legacy(RawLines)
    /\ \E i \in 1..Len(RawLines) : RawLines[i] = <<"$">>
    /\ Len(steps) = 2

\* no line of the text is empty
NoBlankLine(text) ==
    \A i \in 1..Len(text) : text[i] = NL => (i > 1 /\ text[i - 1] # NL)

\* C5: the text save_file writes for a Document the editor can hold has no
\* empty line.
C5_NoBlankLineWritten ==
    (pc = "saved" /\ EditorDoc(orig)) => NoBlankLine(disk.content)

RECURSIVE DropTrailingEmpty(_)
DropTrailingEmpty(ls) ==
    IF ls # <<>> /\ ls[Len(ls)] = <<>>
    THEN DropTrailingEmpty(SubSeq(ls, 1, Len(ls) - 1))
    ELSE ls

\* C6: save_file writes each Step's 1-based index and then its lines, one per
\* output line, with all trailing newlines replaced by exactly one; a Document
\* of no Steps gives "\n"; [["a"],["b","c"]] gives "1\na\n2\nb\nc\n".
C6_OutputShape ==
    pc = "saved" =>
        /\ disk.state = "ok"
        /\ LET kept == DropTrailingEmpty(AssembledLines(orig, 1))
           IN  disk.content = IF kept = <<>> THEN <<NL>> ELSE join_lines(kept)
        /\ orig = <<>> => disk.content = <<NL>>
        /\ orig = ExampleDoc =>
               disk.content = <<"1", NL, "a", NL, "2", NL, "b", NL, "c", NL>>

\* a Document of two Steps whose last line is empty was saved
C6_Witness ==
    /\ pc = "saved"
    /\ Len(orig) = 2
    /\ orig[1] # <<>>
    /\ Len(orig[2]) = 2
    /\ orig[2][2] = <<>>

OnlyDelimitersAndBlanks(ls) ==
    \A i \in 1..Len(ls) : IsBlank(ls[i]) \/ IsDelimiter(ls, i)

OnlyDelimitersBlanksAndDollars(ls) ==
    \A i \in 1..Len(ls) : IsBlank(ls[i]) \/ IsDelimiter(ls, i) \/ ls[i] = <<"$">>

\* C7 (as claimed): load_file returns one Step of one empty line for a file
\* that cannot be read, is empty or whitespace only, or holds only delimiter,
\* blank and bare "$" lines; for every other input at least one Step.
C7_EmptyInputGivesOneEmptyStep ==
    pc = "loaded" =>
        /\ Len(steps) >= 1
        /\ (disk.state # "ok" \/ OnlyDelimitersBlanksAndDollars(RawLines))
               => steps = <<new_step>>

\* C7 (amended): the same for a file that cannot be read, is empty or
\* whitespace only, or holds only delimiter and blank lines.
C7_OnlyDelimitersGiveOneEmptyStep ==
    pc = "loaded" =>
        /\ Len(steps) >= 1
        /\ (disk.state # "ok" \/ OnlyDelimitersAndBlanks(RawLines))
               => steps = <<new_step>>

\* a file of two delimiters and nothing else was loaded
C7_Witness ==
    /\ Loaded
    /\ OnlyDelimitersAndBlanks(RawLines)
    /\ \E i \in 1..Len(RawLines) : IsDelimiter(RawLines, i) /\ DelimsUpTo(RawLines, i) = 2
    /\ steps = <<new_step>>

(***************************************************************************)
(* editor.rs: the Editor.  Its fields are the variables steps, memo, si,   *)
(* row, col, scroll, dirty, msg, running and quit_confirm; the operations  *)
(* below map an Editor value e (with the file on disk, and whether the     *)
(* operation panicked) to the value after the operation.  si, row and col  *)
(* are 0-based, col a byte offset, as in the source.  saved_doc is history:  *)
(* the Document that Editor::new was given, then the Document of the last  *)
(* save that succeeded.                                                    *)
(***************************************************************************)
\* the two bytes of a character outside ASCII (U+00E9 in UTF-8)
LeadByte == "C3"
ContByte == "A9"

\* str::is_char_boundary
is_char_boundary(s, idx) ==
    \/ idx = 0
    \/ idx = Len(s)
    \/ idx < Len(s) /\ s[idx + 1] # ContByte

\* char::len_utf8 of the character that starts at byte idx
len_utf8(s, idx) == IF s[idx + 1] = LeadByte THEN 2 ELSE 1

EmptyMemo == [set |-> FALSE, row |-> 0, col |-> 0, scroll |-> 0]

\* Editor::new
new(file, doc) ==
    [steps |-> doc, memo |-> [i \in 1..Len(doc) |-> EmptyMemo], si |-> 0,
     row |-> 0, col |-> 0, scroll |-> 0, dirty |-> FALSE, msg |-> NoMsg,
     running |-> TRUE, quit_confirm |-> FALSE, disk |-> file,
     panicked |-> FALSE, saved_doc |-> doc]

panic(e) == [e EXCEPT !.panicked = TRUE]

\* self.steps[self.si] and self.steps[self.si][self.row] are in range
step_in_range(e) == e.si < Len(e.steps)
line_in_range(e) == step_in_range(e) /\ e.row < Len(e.steps[e.si + 1])

step(e) == e.steps[e.si + 1]

line(e) == e.steps[e.si + 1][e.row + 1]

\* variant: dirty is left as it is
mark_dirty_flag_kept(e) == [e EXCEPT !.quit_confirm = FALSE]

mark_dirty(e) == [e EXCEPT !.dirty = TRUE, !.quit_confirm = FALSE]

set_msg(e, text, kind) == [e EXCEPT !.msg = [text |-> text, kind |-> kind]]

clamp_cursor(e) ==
    IF ~step_in_range(e) THEN panic(e)
    ELSE LET nlines == Len(step(e))
         IN  IF nlines = 0 THEN [e EXCEPT !.row = 0, !.col = 0]
             ELSE LET e1 == IF e.row >= nlines THEN [e EXCEPT !.row = nlines - 1]
                            ELSE e
                      len == Len(line(e1))
                  IN  IF e1.col > len THEN [e1 EXCEPT !.col = len] ELSE e1

save_memo(e) ==
    IF ~step_in_range(e) THEN panic(e)
    ELSE [e EXCEPT !.memo[e.si + 1] =
             [set |-> TRUE, row |-> e.row, col |-> e.col, scroll |-> e.scroll]]

\* variant: the column is not restored
restore_memo_row_only(e) ==
    IF e.si + 1 \notin 1..Len(e.memo) THEN e
    ELSE LET m == e.memo[e.si + 1]
         IN  clamp_cursor([e EXCEPT !.row = IF m.set THEN m.row ELSE 0,
                                    !.col = 0,
                                    !.scroll = IF m.set THEN m.scroll ELSE 0])

restore_memo(e) ==
    IF ~step_in_range(e) THEN panic(e)
    ELSE LET m == e.memo[e.si + 1]
         IN  clamp_cursor([e EXCEPT !.row = IF m.set THEN m.row ELSE 0,
                                    !.col = IF m.set THEN m.col ELSE 0,
                                    !.scroll = IF m.set THEN m.scroll ELSE 0])

\* variant: a caret below the window becomes its row after the last
ensure_cursor_visible_past_bottom(e, content_h) ==
    IF e.row < e.scroll THEN [e EXCEPT !.scroll = e.row]
    ELSE IF e.row >= e.scroll + content_h
    THEN [e EXCEPT !.scroll = e.row - content_h]
    ELSE e

ensure_cursor_visible(e, content_h) ==
    IF e.row < e.scroll THEN [e EXCEPT !.scroll = e.row]
    ELSE IF e.row >= e.scroll + content_h
    THEN [e EXCEPT !.scroll = e.row + 1 - content_h]
    ELSE e

\* Editor::draw, for a terminal of term_h rows: what it changes of the Editor
draw(e, term_h) == IF term_h < 3 THEN e ELSE ensure_cursor_visible(e, term_h - 2)

switch_step(e, new_si) ==
    IF new_si = e.si \/ new_si >= Len(e.steps) THEN e
    ELSE LET e1 == save_memo(e)
         IN  IF e1.panicked THEN e1 ELSE restore_memo([e1 EXCEPT !.si = new_si])

next_step(e) == IF e.si + 1 < Len(e.steps) THEN switch_step(e, e.si + 1) ELSE e

prev_step(e) == IF e.si > 0 THEN switch_step(e, e.si - 1) ELSE e

\* variant: the column is kept as it is
move_up_unclamped(e) == IF e.row > 0 THEN [e EXCEPT !.row = e.row - 1] ELSE e

move_up(e) ==
    IF e.row > 0
    THEN LET e1 == [e EXCEPT !.row = e.row - 1]
         IN  IF ~line_in_range(e1) THEN panic(e)
             ELSE [e1 EXCEPT !.col = IF e.col < Len(line(e1)) THEN e.col
                                     ELSE Len(line(e1))]
    ELSE e

move_down(e) ==
    IF ~step_in_range(e) THEN panic(e)
    ELSE IF e.row + 1 < Len(step(e))
    THEN LET e1 == [e EXCEPT !.row = e.row + 1]
         IN  [e1 EXCEPT !.col = IF e.col < Len(line(e1)) THEN e.col
                                 ELSE Len(line(e1))]
    ELSE e

\* variant: the character goes into the first Step
insert_char_first_step(e, c) ==
    IF e.steps = <<>> \/ e.row >= Len(e.steps[1]) THEN e
    ELSE [e EXCEPT !.steps[1][e.row + 1] = <<c>> \o @,
                   !.col = e.col + 1, !.dirty = TRUE, !.quit_confirm = FALSE]

\* String::insert(col, c)
insert_char(e, c) ==
    IF ~line_in_range(e) THEN panic(e)
    ELSE IF e.col > Len(line(e)) \/ ~is_char_boundary(line(e), e.col) THEN panic(e)
    ELSE mark_dirty([e EXCEPT
             !.steps[e.si + 1][e.row + 1] =
                 SubSeq(@, 1, e.col) \o <<c>> \o SubSeq(@, e.col + 1, Len(@)),
             !.col = e.col + 1])

insert_tab(e) == insert_char(e, TAB)

\* Vec::insert(i, x), i 0-based
vec_insert(v, i, x) == SubSeq(v, 1, i) \o <<x>> \o SubSeq(v, i + 1, Len(v))

\* Vec::remove(i), i 0-based: the vector without element i
vec_remove(v, i) == SubSeq(v, 1, i) \o SubSeq(v, i + 2, Len(v))

\* String::remove(idx) panics
string_remove_panics(s, idx) == idx >= Len(s) \/ ~is_char_boundary(s, idx)

\* String::remove(idx): the string without the character at byte idx
string_remove(s, idx) ==
    SubSeq(s, 1, idx) \o SubSeq(s, idx + 1 + len_utf8(s, idx), Len(s))

insert_newline(e) ==
    IF ~line_in_range(e) THEN panic(e)
    ELSE IF e.col > Len(line(e)) \/ ~is_char_boundary(line(e), e.col) THEN panic(e)
    ELSE LET rest == SubSeq(line(e), e.col + 1, Len(line(e)))
             kept == SubSeq(line(e), 1, e.col)
             e1 == [e EXCEPT !.steps[e.si + 1][e.row + 1] = kept]
         IN  mark_dirty([e1 EXCEPT
                 !.steps[e.si + 1] = vec_insert(@, e.row + 1, rest),
                 !.row = e.row + 1,
                 !.col = 0])

handle_backspace(e) ==
    IF e.col > 0
    THEN IF ~line_in_range(e) \/ string_remove_panics(line(e), e.col - 1)
         THEN panic(e)
         ELSE mark_dirty([e EXCEPT
                  !.steps[e.si + 1][e.row + 1] = string_remove(@, e.col - 1),
                  !.col = e.col - 1])
    ELSE IF e.row > 0
    THEN IF ~line_in_range(e) THEN panic(e)
         ELSE LET current_line == line(e)
                  e1 == [e EXCEPT !.steps[e.si + 1] = vec_remove(@, e.row),
                                  !.row = e.row - 1]
                  e2 == [e1 EXCEPT !.col = Len(line(e1))]
              IN  mark_dirty([e2 EXCEPT
                      !.steps[e.si + 1][e2.row + 1] = @ \o current_line])
    ELSE e

handle_delete(e) ==
    IF ~line_in_range(e) THEN panic(e)
    ELSE IF e.col < Len(line(e))
    THEN IF string_remove_panics(line(e), e.col) THEN panic(e)
         ELSE mark_dirty([e EXCEPT
                  !.steps[e.si + 1][e.row + 1] = string_remove(@, e.col)])
    ELSE IF e.row + 1 < Len(step(e))
    THEN LET next_line == step(e)[e.row + 2]
             e1 == [e EXCEPT !.steps[e.si + 1] = vec_remove(@, e.row + 1)]
         IN  mark_dirty([e1 EXCEPT !.steps[e.si + 1][e.row + 1] = @ \o next_line])
    ELSE e

\* variant: the Step is left without a line
clear_step_no_line(e) ==
    IF e.si + 1 \notin 1..Len(e.steps) THEN e
    ELSE [e EXCEPT !.steps[e.si + 1] = <<>>, !.row = 0, !.col = 0,
                   !.scroll = 0, !.dirty = TRUE]

\* variant: the scroll offset is kept
clear_step_keep_scroll(e) ==
    IF e.si + 1 \notin 1..Len(e.steps) THEN e
    ELSE [e EXCEPT !.steps[e.si + 1] = << <<>> >>, !.row = 0, !.col = 0,
                   !.dirty = TRUE, !.quit_confirm = FALSE,
                   !.msg = [text |-> "Step cleared", kind |-> "Ok"]]

clear_step(e) ==
    IF ~step_in_range(e) THEN panic(e)
    ELSE set_msg(mark_dirty([e EXCEPT !.steps[e.si + 1] = new_step,
                                      !.row = 0, !.col = 0, !.scroll = 0]),
                 "Step cleared", "Ok")

\* variant: dirty is cleared whatever the outcome
save_always_clean(e, io_ok) ==
    IF io_ok
    THEN set_msg([e EXCEPT !.disk = TextFile(save_file(e.steps)), !.dirty = FALSE,
                           !.saved_doc = e.steps],
                 "Saved", "Ok")
    ELSE set_msg([e EXCEPT !.dirty = FALSE], "Save error", "Error")

\* Editor::save; io_ok: save_file returns Ok (the file is written) or Err
\* (the file could not be created)
save(e, io_ok) ==
    IF io_ok
    THEN set_msg([e EXCEPT !.disk = TextFile(save_file(e.steps)), !.dirty = FALSE,
                           !.saved_doc = e.steps],
                 "Saved", "Ok")
    ELSE set_msg(e, "Save error", "Error")

Keys == { "CtrlC", "CtrlQ", "CtrlS", "CtrlN", "CtrlP", "CtrlA", "CtrlE",
          "CtrlL", "PageDown", "PageUp", "Tab", "Left", "Right", "Up", "Down",
          "Home", "End", "Enter", "Backspace", "Delete", "Char", "Other" }

\* the printable characters the model types
KeyChars == { "a" }

\* a key event: its code and, for "Char", the character; "Other" is any key
\* that no arm of handle_key matches
KeyEvents ==
    { [code |-> k, ch |-> ""] : k \in Keys \ { "Char" } }
        \cup { [code |-> "Char", ch |-> c] : c \in KeyChars }

\* if key.code != KeyCode::Char('q') || !ctrl { self.msg = None; }
clear_transient_msg(e, key) ==
    IF key.code # "CtrlQ" THEN [e EXCEPT !.msg = NoMsg] ELSE e

\* if self.quit_confirm && !(ctrl && key.code == KeyCode::Char('q')) {
\*     self.quit_confirm = false; }
cancel_quit_confirm(e, key) ==
    IF e.quit_confirm /\ key.code # "CtrlQ"
    THEN [e EXCEPT !.quit_confirm = FALSE]
    ELSE e

\* variant: a dirty Document is discarded at the first request
quit_request_at_once(e) == [e EXCEPT !.running = FALSE]

\* the arm KeyCode::Char('q') if ctrl
quit_request(e) ==
    IF ~e.dirty THEN [e EXCEPT !.running = FALSE]
    ELSE IF e.quit_confirm THEN [e EXCEPT !.running = FALSE]
    ELSE set_msg([e EXCEPT !.quit_confirm = TRUE],
                 "Unsaved! ^Q again to discard", "Warn")

\* Editor::handle_key; io_ok is the outcome of save_file, should the key save
handle_key(e, key, io_ok) ==
    LET e1 == clear_transient_msg(e, key)
        e2 == cancel_quit_confirm(e1, key)
    IN  CASE key.code = "CtrlC" -> [e2 EXCEPT !.running = FALSE]
          [] key.code = "CtrlQ" -> quit_request(e2)
          [] key.code = "CtrlS" -> save(e2, io_ok)
          [] key.code = "CtrlN" -> next_step(e2)
          [] key.code = "CtrlP" -> prev_step(e2)
          [] key.code = "CtrlA" -> [e2 EXCEPT !.col = 0]
          [] key.code = "CtrlE" ->
                IF ~line_in_range(e2) THEN panic(e2)
                ELSE [e2 EXCEPT !.col = Len(line(e2))]
          [] key.code = "CtrlL" -> clear_step(e2)
          [] key.code = "PageDown" -> next_step(e2)
          [] key.code = "PageUp" -> prev_step(e2)
          [] key.code = "Tab" -> insert_tab(e2)
          [] key.code = "Left" ->
                IF e2.col > 0 THEN [e2 EXCEPT !.col = e2.col - 1] ELSE e2
          [] key.code = "Right" ->
                IF ~line_in_range(e2) THEN panic(e2)
                ELSE IF e2.col < Len(line(e2)) THEN [e2 EXCEPT !.col = e2.col + 1]
                ELSE e2
          [] key.code = "Up" -> move_up(e2)
          [] key.code = "Down" -> move_down(e2)
          [] key.code = "Home" -> [e2 EXCEPT !.col = 0]
          [] key.code = "End" ->
                IF ~line_in_range(e2) THEN panic(e2)
                ELSE [e2 EXCEPT !.col = Len(line(e2))]
          [] key.code = "Enter" -> insert_newline(e2)
          [] key.code = "Backspace" -> handle_backspace(e2)
          [] key.code = "Delete" -> handle_delete(e2)
          [] key.code = "Char" -> insert_char(e2, key.ch)
          [] OTHER -> e2

(***************************************************************************)
(* main.rs: run_editor.                                                    *)
(***************************************************************************)
\* variant: the Document is cut to the requested count
pad_to_count(doc, num_steps) ==
    [i \in 1..num_steps |-> IF i <= Len(doc) THEN doc[i] ELSE new_step]

\* while steps.len() < num_steps { steps.push(new_step()) }
pad(doc, num_steps) ==
    IF Len(doc) < num_steps
    THEN doc \o [i \in 1..(num_steps - Len(doc)) |-> new_step]
    ELSE doc

\* the Document run_editor hands to Editor::new
startup_steps(file, num_steps) ==
    pad(IF file.state # "missing" THEN load_file(file) ELSE make_steps(num_steps),
        num_steps)

(***************************************************************************)
(* The editor as a state machine: run_editor, then Editor::event_loop.     *)
(* pc: "start", then "read" (the blocking event::read, reached through the *)
(* loop test and draw), "poll" (the loop that drains queued events), and   *)
(* at the end "exit" or "panicked".                                        *)
(***************************************************************************)
\* the files the editor is started on
InitialFiles ==
    { MissingFile,
      TextFile(<<"1", NL, "a", NL, LeadByte, ContByte, NL>>) }

\* the requested step counts
StepCounts == { 1, 2 }

\* the heights of the terminal (2: too small to draw)
TermHeights == { 2, 3, 4 }

\* the Editor value of the current state
Editor ==
    [steps |-> steps, memo |-> memo, si |-> si, row |-> row, col |-> col,
     scroll |-> scroll, dirty |-> dirty, msg |-> msg, running |-> running,
     quit_confirm |-> quit_confirm, disk |-> disk, panicked |-> FALSE,
     saved_doc |-> saved_doc]

\* the next state holds the Editor value e; a panic ends the process
Becomes(e, next_pc) ==
    IF e.panicked
    THEN /\ pc' = "panicked"
         /\ UNCHANGED <<disk, steps, editor_vars>>
    ELSE /\ pc' = next_pc
         /\ steps' = e.steps
         /\ memo' = e.memo
         /\ si' = e.si
         /\ row' = e.row
         /\ col' = e.col
         /\ scroll' = e.scroll
         /\ dirty' = e.dirty
         /\ msg' = e.msg
         /\ running' = e.running
         /\ quit_confirm' = e.quit_confirm
         /\ disk' = e.disk
         /\ saved_doc' = e.saved_doc

\* the top of the loop, from the Editor value e: while self.running {
\* self.draw(stdout)?; match event::read()? ...
LoopTop(e) ==
    IF e.panicked \/ ~e.running THEN Becomes(e, "exit")
    ELSE \E term_h \in TermHeights : Becomes(draw(e, term_h), "read")

\* the outcomes of save_file that matter to the key
IoOutcomes(key) == IF key.code = "CtrlS" THEN BOOLEAN ELSE { TRUE }

Init ==
    /\ pc = "start"
    /\ disk \in InitialFiles
    /\ th = 0
    /\ nkeys = 0
    /\ orig = <<>>
    /\ steps = <<>>
    /\ NoEditor

\* run_editor up to the first event::read of the loop
RunEditor ==
    /\ pc = "start"
    /\ \E num_steps \in StepCounts :
           /\ orig' = startup_steps(disk, num_steps)
           /\ LoopTop(new(disk, startup_steps(disk, num_steps)))
    /\ UNCHANGED <<th, nkeys>>

\* match event::read()? { Event::Key(key) => self.handle_key(key), ...
ReadKey ==
    /\ pc = "read"
    /\ nkeys < MaxKeys
    /\ nkeys' = nkeys + 1
    /\ \E key \in KeyEvents :
           /\ \E io_ok \in IoOutcomes(key) :
                  Becomes(handle_key(Editor, key, io_ok), "poll")
    /\ UNCHANGED <<th, orig>>

\* ... Event::Resize(_, _) => {}, _ => {} }
ReadOther ==
    /\ pc = "read"
    /\ pc' = "poll"
    /\ UNCHANGED <<disk, th, nkeys, orig, steps, editor_vars>>

\* while event::poll(Duration::ZERO)? { match event::read()? {
\*     Event::Key(key) => self.handle_key(key), ... }
\*     if !self.running { break; } }
PollKey ==
    /\ pc = "poll"
    /\ nkeys < MaxKeys
    /\ nkeys' = nkeys + 1
    /\ \E key \in KeyEvents :
           /\ \E io_ok \in IoOutcomes(key) :
                  LET e == handle_key(Editor, key, io_ok)
                  IN  IF e.running THEN Becomes(e, "poll") ELSE LoopTop(e)
    /\ UNCHANGED <<th, orig>>

PollOther ==
    /\ pc = "poll"
    /\ IF running THEN Becomes(Editor, "poll") ELSE LoopTop(Editor)
    /\ UNCHANGED <<th, nkeys, orig>>

\* event::poll(Duration::ZERO)? is false: back to the top of the loop
PollEmpty ==
    /\ pc = "poll"
    /\ LoopTop(Editor)
    /\ UNCHANGED <<th, nkeys, orig>>

Next ==
    \/ RunEditor
    \/ ReadKey
    \/ ReadOther
    \/ PollKey
    \/ PollOther
    \/ PollEmpty

Spec == Init /\ [][Next]_vars

(***************************************************************************)
(* The viewport harness: draw on an Editor whose caret row and scroll      *)
(* offset are arbitrary, for a terminal of th rows.  orig keeps the scroll *)
(* offset before the draw.                                                 *)
(***************************************************************************)
InitView ==
    /\ pc = "view"
    /\ disk = MissingFile
    /\ th \in 0..MaxTermHeight
    /\ nkeys = 0
    /\ steps = << [i \in 1..MaxViewLines |-> <<>>] >>
    /\ memo = << EmptyMemo >>
    /\ si = 0
    /\ row \in 0..(MaxViewLines - 1)
    /\ col = 0
    /\ scroll \in 0..MaxViewLines
    /\ orig = << scroll >>
    /\ dirty = FALSE
    /\ msg = NoMsg
    /\ running = TRUE
    /\ quit_confirm = FALSE
    /\ saved_doc = steps

ViewDraw ==
    /\ pc = "view"
    /\ Becomes(draw(Editor, th), "viewed")
    /\ UNCHANGED <<th, nkeys, orig>>

NextView == ViewDraw

SpecView == InitView /\ [][NextView]_vars

(***************************************************************************)
(* The editor and the file_io harness together.                            *)
(***************************************************************************)
InitAll == Init \/ InitIO

NextAll == Next \/ NextIO

SpecAll == InitAll /\ [][NextAll]_vars

(***************************************************************************)
(* Claims on the editor.                                                   *)
(***************************************************************************)
\* the Editor exists (run_editor has built it)
Started == pc \in { "read", "poll", "exit", "panicked" }

\* C8: every Step of the Document holds at least one line, after loading a
\* file, after padding and after every input event.
C8_StepsNonEmpty ==
    (Started \/ pc \in { "loaded", "reloaded" }) =>
        /\ steps # <<>>
        /\ \A k \in 1..Len(steps) : Len(steps[k]) >= 1

\* a Step was cleared after its lines had been joined or split
C8_Witness ==
    /\ Started
    /\ nkeys >= 3
    /\ Len(steps) = 2
    /\ steps[si + 1] = new_step
    /\ msg.text = "Step cleared"

\* C9: after every input event the active step index is valid, the caret row
\* is a line of the active Step and the caret column is within that line.
C9_CursorBounds ==
    Started =>
        /\ 0 <= si /\ si < Len(steps)
        /\ 0 <= row /\ row < Len(steps[si + 1])
        /\ 0 <= col /\ col <= Len(steps[si + 1][row + 1])

\* after three keys the caret stands at the end of a shorter first line, below
\* which a longer line lies
C9_Witness ==
    /\ Started
    /\ nkeys >= 3
    /\ row = 0
    /\ Len(steps[si + 1]) >= 2
    /\ col = Len(steps[si + 1][1])
    /\ col > 0
    /\ Len(steps[si + 1][2]) > col

\* C10: after ensure_cursor_visible(h), h >= 1, scroll <= row < scroll + h; a
\* caret already inside the window leaves scroll as it was, a caret above makes
\* scroll = row, a caret below makes scroll = row + 1 - h; nothing but scroll
\* changes.
C10_ViewportAtRedraw ==
    [][(pc = "view" /\ pc' = "viewed" /\ th >= 3) =>
          LET h == th - 2
          IN  /\ scroll' <= row'
              /\ row' < scroll' + h
              /\ (scroll <= row /\ row < scroll + h) => scroll' = scroll
              /\ row < scroll => scroll' = row
              /\ row >= scroll + h => scroll' = row + 1 - h
              /\ UNCHANGED <<disk, steps, memo, si, row, col, dirty, msg,
                             running, quit_confirm>>]_vars

\* the caret was below a window of two or more rows and the window moved down
C10_Witness ==
    /\ pc = "viewed"
    /\ th >= 4
    /\ row >= orig[1] + (th - 2)
    /\ scroll = row + 1 - (th - 2)
    /\ scroll # orig[1]

\* the event loop is waiting for an event (blocking read, or poll)
Active == pc \in { "read", "poll" }

\* the Editor value after its caret was memorised, the active Step made
\* new_si, the events keys handled there in order, and the editor switched
\* back to the Step it came from
RECURSIVE handle_keys(_, _)
handle_keys(e, keys) ==
    IF keys = <<>> \/ e.panicked THEN e
    ELSE handle_keys(handle_key(e, Head(keys), TRUE), Tail(keys))

there_and_back(e, new_si, keys) ==
    LET away == handle_keys(switch_step(e, new_si), keys)
    IN  [away |-> away, back |-> switch_step(away, e.si)]

\* switching to each other valid Step and back, with at most one event handled
\* in between that leaves the editor in that Step, restores row, col and scroll
RoundTrip(e) ==
    \A new_si \in (0..(Len(e.steps) - 1)) \ { e.si } :
        \A keys \in { <<>> } \cup { <<key>> : key \in KeyEvents } :
            LET t == there_and_back(e, new_si, keys)
            IN  (~t.away.panicked /\ t.away.si = new_si /\ t.away.running) =>
                    /\ ~t.back.panicked
                    /\ t.back.si = e.si
                    /\ t.back.row = e.row
                    /\ t.back.col = e.col
                    /\ t.back.scroll = e.scroll

\* a switch to the active Step or to an index out of range changes nothing
NoOpSwitch(e) ==
    /\ \A new_si \in { e.si, Len(e.steps), Len(e.steps) + 1 } :
           switch_step(e, new_si) = e
    /\ e.si + 1 >= Len(e.steps) => next_step(e) = e
    /\ e.si = 0 => prev_step(e) = e

\* a step that changes the active Step memorises the caret of the Step left,
\* in its slot only, and takes the caret from the slot of the Step entered
SwitchSavesAndRestores ==
    si' # si =>
        /\ memo' = [memo EXCEPT ![si + 1] =
                       [set |-> TRUE, row |-> row, col |-> col, scroll |-> scroll]]
        /\ steps' = steps
        /\ LET m == memo[si' + 1]
           IN  /\ row' = IF m.set THEN m.row ELSE 0
               /\ col' = IF m.set THEN m.col ELSE 0
               /\ scroll' = IF m.set THEN m.scroll ELSE 0

\* a step that keeps the active Step changes neither the lines nor the slot of
\* any other Step
AwayStepUntouched ==
    si' = si =>
        /\ Len(steps') = Len(steps)
        /\ memo' = memo
        /\ \A k \in 1..Len(steps) : k # si + 1 => steps'[k] = steps[k]

\* C11: switching from Step i to another valid Step j and back restores row,
\* column and scroll of Step i exactly, whatever events were handled in Step j
\* (they touch neither the lines nor the memory slot of Step i); a switch to
\* the active Step or out of range changes neither the active index, the
\* caret, the scroll nor any memory slot.
C11_StepSwitchRoundTrip ==
    /\ [](Active => (RoundTrip(Editor) /\ NoOpSwitch(Editor)))
    /\ [][(Active /\ pc' # "panicked") =>
             (SwitchSavesAndRestores /\ AwayStepUntouched)]_vars

\* the editor is back in the first Step, the caret where it was left (not at
\* the origin), after the second Step was edited
C11_Witness ==
    /\ Active
    /\ Len(steps) = 2
    /\ si = 0
    /\ memo[1].set
    /\ memo[2].set
    /\ col > 0
    /\ <<row, col, scroll>> = <<memo[1].row, memo[1].col, memo[1].scroll>>
    /\ steps[2] # orig[2]

\* the key event of code k
Key(k) == [code |-> k, ch |-> IF k = "Char" THEN "a" ELSE ""]

\* the keys that edit the Document and the keys that move the caret or change
\* the active Step
EditKeys == { "Tab", "Enter", "Backspace", "Delete", "Char", "CtrlL" }
NavKeys == { "Left", "Right", "Up", "Down", "Home", "End", "CtrlA", "CtrlE",
             "CtrlN", "CtrlP", "PageDown", "PageUp" }

\* the quit request only warns: the editor keeps running, the confirmation is
\* pending and the message is a warning
OnlyWarns(e) ==
    /\ ~e.panicked
    /\ e.running
    /\ e.quit_confirm
    /\ e.dirty
    /\ e.msg.kind = "Warn"

\* C12: Ctrl+Q on a dirty Document with no confirmation pending only warns; a
\* second Ctrl+Q as the very next event stops the editor; after an edit or
\* navigation event in between the confirmation is no longer pending and the
\* later Ctrl+Q again only warns; Ctrl+Q on a clean Document stops the editor
\* at once.
C12_QuitConfirmation ==
    (Active /\ running) =>
        LET first == handle_key(Editor, Key("CtrlQ"), TRUE)
        IN  /\ (dirty /\ ~quit_confirm) =>
                   /\ OnlyWarns(first)
                   /\ ~handle_key(first, Key("CtrlQ"), TRUE).running
                   /\ \A k \in EditKeys \cup NavKeys :
                          LET between == handle_key(first, Key(k), TRUE)
                          IN  ~between.panicked =>
                                  /\ ~between.quit_confirm
                                  /\ between.running
                                  /\ OnlyWarns(handle_key(between, Key("CtrlQ"), TRUE))
            /\ ~dirty => (~first.running /\ ~first.panicked)

\* the editor has stopped on the second of two quit requests, the Document
\* dirty
C12_Witness ==
    /\ pc = "exit"
    /\ ~running
    /\ dirty
    /\ quit_confirm
    /\ msg.kind = "Warn"

\* e1 has the Document and the caret of e
SameDocumentAndCaret(e, e1) ==
    /\ ~e1.panicked
    /\ e1.steps = e.steps
    /\ e1.si = e.si
    /\ e1.row = e.row
    /\ e1.col = e.col
    /\ e1.scroll = e.scroll

\* C13: Ctrl+S whose write fails leaves the Document, the caret and the dirty
\* flag as they were and sets a message of error severity; Ctrl+S whose write
\* succeeds clears dirty and sets an informational message, also after one or
\* two failed saves; neither changes the Document.
C13_SaveOutcome ==
    Active =>
        LET failed == handle_key(Editor, Key("CtrlS"), FALSE)
            failed_twice == handle_key(failed, Key("CtrlS"), FALSE)
        IN  /\ \A e \in { failed, failed_twice } :
                   /\ SameDocumentAndCaret(Editor, e)
                   /\ e.dirty = dirty
                   /\ e.msg.kind = "Error"
                   /\ e.disk = disk
            /\ \A e \in { Editor, failed, failed_twice } :
                   LET saved == handle_key(e, Key("CtrlS"), TRUE)
                   IN  /\ SameDocumentAndCaret(Editor, saved)
                       /\ ~saved.dirty
                       /\ saved.msg.kind = "Ok"
                       /\ saved.disk = TextFile(save_file(steps))

\* a save of an edited Document has failed
C13_Witness ==
    /\ Active
    /\ dirty
    /\ steps # orig
    /\ msg.kind = "Error"

\* the Step st with lines r and r + 1 (1-based) replaced by their concatenation
JoinLines(st, r) ==
    SubSeq(st, 1, r - 1) \o << st[r] \o st[r + 1] >> \o SubSeq(st, r + 2, Len(st))

\* the line l without its c-th character (1-based)
WithoutChar(l, c) == SubSeq(l, 1, c - 1) \o SubSeq(l, c + 1, Len(l))

\* the c-th byte of l (1-based) is a character of one byte
OneByteChar(l, c) == l[c] \notin { LeadByte, ContByte }

\* C14: Backspace at column 0 of the first line changes neither the Document,
\* the caret nor dirty; at column 0 of line r > 0 it replaces lines r - 1 and r
\* by their concatenation, moves the caret to row r - 1 and to the column that
\* was the length of line r - 1, and sets dirty; at column c > 0 it removes the
\* character before the caret and moves the caret to column c - 1 (what is
\* removed is compared where that character is one byte); it never panics.
C14_Backspace ==
    (Active /\ running) =>
        LET e == handle_key(Editor, Key("Backspace"), TRUE)
            st == steps[si + 1]
        IN  /\ ~e.panicked
            /\ e.si = si
            /\ \A k \in 1..Len(steps) : k # si + 1 => e.steps[k] = steps[k]
            /\ (col = 0 /\ row = 0) =>
                   /\ e.steps = steps
                   /\ e.row = row
                   /\ e.col = col
                   /\ e.dirty = dirty
            /\ (col = 0 /\ row > 0) =>
                   /\ e.steps[si + 1] = JoinLines(st, row)
                   /\ e.row = row - 1
                   /\ e.col = Len(st[row])
                   /\ e.dirty
            /\ (col > 0 /\ OneByteChar(st[row + 1], col)) =>
                   /\ e.steps[si + 1] = [st EXCEPT ![row + 1] = WithoutChar(@, col)]
                   /\ e.row = row
                   /\ e.col = col - 1
                   /\ e.dirty

\* C15: once an event has set running to false, no later event is applied:
\* no step of the event loop changes the Document, the dirty flag, the caret
\* or the file on disk.
C15_StoppedIsTerminal ==
    [][(Active /\ ~running) =>
          UNCHANGED <<steps, dirty, si, row, col, disk>>]_vars

\* the step handles an input event: the one the blocking read returns, or a
\* key drained from the queue
HandlesEvent == pc = "read" \/ (pc = "poll" /\ nkeys' # nkeys)

\* C16: whenever the quit confirmation is pending, every input event that is
\* not a quit request (a pending quit request stops the editor) leaves it
\* cleared: an edit or navigation key, a save or step switch, a key bound to
\* nothing, a resize of the terminal.
C16_PendingQuitCancelled ==
    [][(running /\ quit_confirm /\ HandlesEvent) =>
          (~quit_confirm' \/ ~running')]_vars

\* the message the arm of key sets on the Editor value e it acts on, if any
MessageOf(e, key, io_ok) ==
    CASE key.code = "CtrlS" ->
             IF io_ok THEN [text |-> "Saved", kind |-> "Ok"]
             ELSE [text |-> "Save error", kind |-> "Error"]
      [] key.code = "CtrlL" -> [text |-> "Step cleared", kind |-> "Ok"]
      [] key.code = "CtrlQ" /\ e.dirty ->
             [text |-> "Unsaved! ^Q again to discard", kind |-> "Warn"]
      [] OTHER -> NoMsg

\* C17: every input event except a quit request that arrives while the
\* confirmation is pending clears the status message before it is processed:
\* after a key the message is the one that key sets, or none; after an event
\* that is not a key there is none.
C17_MessageCleared ==
    /\ [](Active /\ running =>
            \A key \in KeyEvents : \A io_ok \in BOOLEAN :
                ~(key.code = "CtrlQ" /\ quit_confirm) =>
                    LET e == handle_key(Editor, key, io_ok)
                    IN  ~e.panicked => e.msg = MessageOf(Editor, key, io_ok))
    /\ [][(pc = "read" /\ nkeys' = nkeys /\ pc' # "panicked") => msg' = NoMsg]_vars

\* C18: no operation of the editor aborts, whatever the file loaded and the
\* events handled: no Step or line is indexed out of range and no string is
\* changed at an offset outside it or inside a character.
C18_NoCrash == pc # "panicked"

(***************************************************************************)
(* The startup harness: run_editor, up to the Document it hands to         *)
(* Editor::new, on any file and any requested step count.  orig holds the  *)
(* requested count.                                                        *)
(***************************************************************************)
InitPad ==
    /\ NoEditor
    /\ pc = "args"
    /\ th = 0
    /\ nkeys = 0
    /\ orig = <<>>
    /\ steps = <<>>
    /\ \/ disk \in { MissingFile, UnreadableFile }
       \/ \E n \in 0..MaxPadLines :
            \E ls \in [1..n -> RawLineSet] :
              \E final_nl \in BOOLEAN :
                disk = TextFile(text_of(ls, final_nl))

\* let mut steps = if path.exists() { load_file(path) } else {
\* make_steps(num_steps) }; while steps.len() < num_steps { ... }
PadSteps ==
    /\ pc = "args"
    /\ \E num_steps \in 1..MaxSteps :
           /\ orig' = << num_steps >>
           /\ steps' = startup_steps(disk, num_steps)
    /\ pc' = "padded"
    /\ UNCHANGED <<disk, th, nkeys, editor_vars>>

NextPad == PadSteps

SpecPad == InitPad /\ [][NextPad]_vars

\* the Document loaded from the file, or synthesised for a missing file
LoadedOrMade(file, num_steps) ==
    IF file.state = "missing" THEN make_steps(num_steps) ELSE load_file(file)

Max(a, b) == IF a >= b THEN a ELSE b

\* C19: the Document handed to the editor has max(k, n) Steps for a loaded (or
\* synthesised) Document of k Steps and a requested count n; its first k Steps
\* are the loaded ones, unchanged and in order; every added Step is one empty
\* line; nothing is truncated.
C19_PaddingAtStartup ==
    pc = "padded" =>
        LET n == orig[1]
            loaded == LoadedOrMade(disk, n)
            k == Len(loaded)
        IN  /\ Len(steps) = Max(k, n)
            /\ SubSeq(steps, 1, k) = loaded
            /\ \A i \in (k + 1)..Len(steps) : steps[i] = new_step

\* a file of two Steps was loaded and padded to three
C19_Witness ==
    /\ pc = "padded"
    /\ disk.state = "ok"
    /\ Len(load_file(disk)) = 2
    /\ orig[1] = 3
    /\ Len(steps) = 3
    /\ steps[3] = new_step

\* the Step st with line r (1-based) split in two after its first c bytes
SplitLine(st, r, c) ==
    SubSeq(st, 1, r - 1)
        \o << SubSeq(st[r], 1, c), SubSeq(st[r], c + 1, Len(st[r])) >>
        \o SubSeq(st, r + 1, Len(st))

\* C20: Enter with the caret at (row r, column c) on the line L replaces L by
\* the two lines L[0..c] and L[c..], leaves every other line as it was, moves
\* the caret to row r + 1, column 0, and sets dirty; it never panics.
C20_InsertLineBreak ==
    (Active /\ running) =>
        LET e == handle_key(Editor, Key("Enter"), TRUE)
        IN  /\ ~e.panicked
            /\ e.steps = [steps EXCEPT ![si + 1] = SplitLine(@, row + 1, col)]
            /\ e.si = si
            /\ e.row = row + 1
            /\ e.col = 0
            /\ e.dirty

\* the line l without the character that starts at byte c (0-based)
WithoutCharAt(l, c) ==
    LET width == IF l[c + 1] = LeadByte THEN 2 ELSE 1
    IN  SubSeq(l, 1, c) \o SubSeq(l, c + 1 + width, Len(l))

\* C21: Delete with the caret before a character removes that character (what
\* is removed is compared where the caret stands at the start of a character);
\* at the end of a line that is not the last of the Step it replaces that line
\* and the next by their concatenation; in both cases row and column are
\* unchanged and dirty is set; at the end of the last line of the Step it
\* changes neither the Document, the caret nor dirty.  It never panics.
C21_DeleteForward ==
    (Active /\ running) =>
        LET e == handle_key(Editor, Key("Delete"), TRUE)
            st == steps[si + 1]
            l == st[row + 1]
        IN  /\ ~e.panicked
            /\ e.si = si
            /\ e.row = row
            /\ e.col = col
            /\ \A k \in 1..Len(steps) : k # si + 1 => e.steps[k] = steps[k]
            /\ col < Len(l) =>
                   /\ e.dirty
                   /\ is_char_boundary(l, col) =>
                          e.steps[si + 1] = [st EXCEPT ![row + 1] = WithoutCharAt(@, col)]
            /\ (col = Len(l) /\ row + 1 < Len(st)) =>
                   /\ e.steps[si + 1] = JoinLines(st, row + 1)
                   /\ Len(e.steps[si + 1]) = Len(st) - 1
                   /\ e.dirty
            /\ (col = Len(l) /\ row + 1 = Len(st)) =>
                   /\ e.steps = steps
                   /\ e.dirty = dirty

\* C22: Ctrl+L, from any state, leaves the active Step a single empty line,
\* row, column and scroll 0, dirty set and an informational message; the
\* active index, the number of Steps, every other Step and every memory slot
\* are unchanged.
C22_ClearStep ==
    (Active /\ running) =>
        LET e == handle_key(Editor, Key("CtrlL"), TRUE)
        IN  /\ ~e.panicked
            /\ e.steps[si + 1] = << <<>> >>
            /\ e.row = 0
            /\ e.col = 0
            /\ e.scroll = 0
            /\ e.dirty
            /\ e.msg.kind = "Ok"
            /\ e.si = si
            /\ Len(e.steps) = Len(steps)
            /\ \A k \in 1..Len(steps) : k # si + 1 => e.steps[k] = steps[k]
            /\ e.memo = memo

\* the first Step, loaded with two lines, has been cleared; the second Step is
\* as it was
C22_Witness ==
    /\ Active
    /\ Len(steps) = 2
    /\ si = 0
    /\ Len(orig[1]) = 2
    /\ steps[1] = << <<>> >>
    /\ steps[2] = orig[2]
    /\ <<row, col, scroll>> = <<0, 0, 0>>
    /\ dirty
    /\ msg = [text |-> "Step cleared", kind |-> "Ok"]

\* C23: the keys that insert a character or a line break, Backspace, Delete
\* and Ctrl+L change neither the lines of a Step other than the active one,
\* nor the number of Steps, nor the active index; the navigation keys and the
\* step-switch keys change neither a line of any Step nor dirty.
C23_EditsTouchActiveStepOnly ==
    (Active /\ running) =>
        /\ \A k \in EditKeys :
               LET e == handle_key(Editor, Key(k), TRUE)
               IN  /\ Len(e.steps) = Len(steps)
                   /\ e.si = si
                   /\ \A j \in 1..Len(steps) : j # si + 1 => e.steps[j] = steps[j]
        /\ \A k \in NavKeys :
               LET e == handle_key(Editor, Key(k), TRUE)
               IN  /\ e.steps = steps
                   /\ e.dirty = dirty

\* the second Step is the active one and has been edited, the first Step is as
\* it was loaded
C23_Witness ==
    /\ Active
    /\ Len(steps) = 2
    /\ si = 1
    /\ dirty
    /\ steps[2] # orig[2]
    /\ Len(steps[1]) = 2
    /\ steps[1] = orig[1]

(***************************************************************************)
(* The parser harness: load_file on an input file, and on the files that   *)
(* differ from it by blank lines.                                          *)
(***************************************************************************)
\* the raw lines of the input files of the parser harness: those of the
\* file_io harness, and a line that ends in "\r"
ParseLineSet == RawLineSet \cup { <<"a", CR>> }

InitParse ==
    /\ NoEditor
    /\ pc = "text"
    /\ th = 0
    /\ nkeys = 0
    /\ orig = <<>>
    /\ steps = <<>>
    /\ \/ disk \in { MissingFile, UnreadableFile }
       \/ \E n \in 0..MaxFileLines :
            \E ls \in [1..n -> ParseLineSet] :
              \E final_nl \in BOOLEAN :
                disk = TextFile(text_of(ls, final_nl))

NextParse == TestLoad

SpecParse == InitParse /\ [][NextParse]_vars

\* the whitespace-only lines that no input file of the harness holds
OtherBlankLines == { <<TAB>>, <<CR>> }

\* the lines ls without the blank ones
RECURSIVE WithoutBlanks(_)
WithoutBlanks(ls) ==
    IF ls = <<>> THEN <<>>
    ELSE IF IsBlank(Head(ls)) THEN WithoutBlanks(Tail(ls))
    ELSE <<Head(ls)>> \o WithoutBlanks(Tail(ls))

\* the Document load_file returns for the file of the lines ls, written with
\* or without its final "\n" as the file on disk is
LoadLines(ls) ==
    LET final_nl == disk.content # <<>> /\ disk.content[Len(disk.content)] = NL
    IN  load_file(TextFile(text_of(ls, final_nl)))

\* C24: for a file with at least one non-blank line, the file without any one
\* of its blank lines (empty or of whitespace only) loads to the same Document
\* (read from the shorter file to the longer, this is the insertion of an
\* empty or one-space line at that position); so does the file with a line of
\* one tab or one carriage return inserted at any position (where the longer
\* file is within MaxFileLines), and the file without all its blank lines:
\* none is stored as content, none counts as a delimiter.
C24_BlankLinesTransparent ==
    Loaded =>
        LET ls == RawLines
        IN  (\E i \in 1..Len(ls) : ~IsBlank(ls[i])) =>
                /\ \A i \in 1..Len(ls) :
                       IsBlank(ls[i]) => LoadLines(vec_remove(ls, i - 1)) = steps
                /\ Len(ls) < MaxFileLines =>
                       \A p \in 0..Len(ls) : \A b \in OtherBlankLines :
                           LoadLines(vec_insert(ls, p, b)) = steps
                /\ LoadLines(WithoutBlanks(ls)) = steps

\* C25: whenever one key event takes the editor from running to stopped, dirty
\* was false just before that event or the quit confirmation was pending just
\* before it: no key stops the editor from a dirty state with no confirmation
\* pending.
C25_NoDiscardWithoutConfirmation ==
    (Active /\ running) =>
        \A key \in KeyEvents : \A io_ok \in IoOutcomes(key) :
            LET e == handle_key(Editor, key, io_ok)
            IN  (~e.panicked /\ ~e.running) => (~dirty \/ quit_confirm)

\* the step is a save that succeeded: the file now holds the text of the
\* Document, which is unchanged and becomes the saved one
SaveSucceeds ==
    /\ steps' = steps
    /\ saved_doc' = steps
    /\ disk' = TextFile(save_file(steps))
    /\ msg' = [text |-> "Saved", kind |-> "Ok"]

\* C26: in every reachable state with dirty false the Document is the one of
\* the last save that succeeded, or the one the editor was constructed with
\* when no save has succeeded, and no quit confirmation is pending; every
\* step of the event loop that changes a line of the Document sets dirty, and
\* dirty goes back to false only in a save that succeeds.
C26_DirtySoundness ==
    /\ [](~dirty => (steps = saved_doc /\ ~quit_confirm))
    /\ [][Active =>
             /\ steps' # steps => dirty'
             /\ (dirty /\ ~dirty') => SaveSucceeds]_vars

\* an edited Document has been saved: dirty is false again and the Document
\* is no longer the one the editor was constructed with
C26_Witness ==
    /\ Active
    /\ ~dirty
    /\ steps # orig
    /\ saved_doc = steps
    /\ msg.text = "Saved"

====
